---- MODULE Spec2Model ----
(***************************************************************************)
(* Smart Lost & Found portal: the OTP claim-verification flow.             *)
(*                                                                         *)
(* The model covers the two callable cloud functions sendClaimOTP and      *)
(* verifyClaimOTP (functions/src/index.ts), the client-side ClaimPage      *)
(* (sendOtp / verifyOtp), and the pages that write item documents          *)
(* (item submission, admin approve / reject, profile mark-as-returned).    *)
(* Every awaited store or mail call is one step, so that calls of          *)
(* different users interleave at exactly the places the code suspends.     *)
(* The matching functions findMatches and sendMatchNotification work on    *)
(* their own view of the item documents (catalog) and are followed in a    *)
(* specification of their own (SpecMatch).                                 *)
(***************************************************************************)
EXTENDS Integers, Sequences, FiniteSets, TLC

VARIABLES
    items,      \* Firestore collection 'items': item id -> document
    otps,       \* Firestore collection 'otps': a set of documents, each with its id
    outbox,     \* mails handed to the transporter: set of [to, otp]
    now,        \* the clock (milliseconds)
    pc,         \* per user: where that user's cloud-function call stands
    req,        \* per user: the call's data, the values it computed, and (history) the
                \* status the item had when the call arrived
    otpData,    \* per user: the otp document verifyClaimOTP read (<<>> or <<doc>>)
    page,       \* the ClaimPage that is open in the browser, and who is signed in
    replaced,   \* history: per (item, user) the code the stored challenge replaced
    ops,        \* how much of the budget of user operations is spent
    budget,     \* the budget of user operations of this run (never changes)
    last,       \* history: the call that returned most recently, and what it returned
    verified,   \* history: per item, the users whose verifyClaimOTP returned success, each
                \* with the status the item had when that call arrived
    catalog,    \* the item documents as the matching functions query them: document id ->
                \* type, status, userId and imageLabels
    mlast       \* the matching operation that ran: its input and what it produced

vars ==
    <<items, otps, outbox, now, pc, req, otpData, page, replaced, ops, budget, last,
      verified, catalog, mlast>>

\* what the claim flow works on, and what the matching functions work on
claimVars ==
    <<items, otps, outbox, now, pc, req, otpData, page, replaced, ops, budget, last,
      verified>>
matchVars == <<catalog, mlast>>

(***************************************************************************)
(* Bounds and program constants                                            *)
(***************************************************************************)
\* the budget of user operations: a cloud-function call or a form action takes one
\* unit, a visit of the ClaimPage two
MaxOps == 3
\* the budget when only the cloud functions are called
MaxRaceCalls == 4

\* 10 * 60 * 1000: the lifetime of a code in milliseconds
OtpWindowMs == 600000

\* Math.floor(100000 + Math.random() * 900000)
OtpBase == 100000
OtpSpan == 900000

\* Math.random() is modelled as num / RandDenom with 0 <= num < RandDenom
RandDenom == 1000

Users == {"u1", "u2"}
ItemIds == {"i1"}

\* the values of Math.random() tried in the claim flow (numerators over RandDenom)
RandomSamples == {425, 999}

\* the instants the clock shows: the start, one code lifetime later, and just after
Times == {0, OtpWindowMs, OtpWindowMs + 1}

EmailOf(u) == u \o "@campus.edu"

(***************************************************************************)
(* Pure helpers                                                            *)
(***************************************************************************)
RECURSIVE Digits(_)
\* Number.prototype.toString() of a non-negative integer, as its decimal digits
Digits(n) == IF n < 10 THEN <<n>> ELSE Append(Digits(n \div 10), n % 10)

\* every value of Math.random() at the resolution of RandDenom
AllRandom == 0 .. (RandDenom - 1)

\* a generator without the offset: Math.floor(r * 1000000)
OtpNumberNoBase(num) == (num * (OtpBase + OtpSpan)) \div RandDenom

\* Math.floor(100000 + r * 900000) for r = num / RandDenom
OtpNumber(num) == OtpBase + ((num * OtpSpan) \div RandDenom)

\* line 27: Math.floor(100000 + Math.random() * 900000).toString()
GenOtp(num) == Digits(OtpNumber(num))

GeneratedCodes == {GenOtp(num) : num \in RandomSamples}

\* what a caller may type: every generated code, and one code off by one
WrongCode ==
    Digits(OtpNumber(CHOOSE n \in RandomSamples : \A m \in RandomSamples : n <= m) + 1)

SubmittedCodes == GeneratedCodes \cup {WrongCode}

\* a document id that would leave out the caller's uid
OtpDocIdItemOnly(itemId, uid) == itemId

\* `${itemId}_${context.auth.uid}`
OtpDocId(itemId, uid) == itemId \o "_" \o uid

\* collection('otps').doc(id).get(): the documents stored under that id
DocsAt(store, id) == {d \in store : d.id = id}

\* a store whose set() would keep what is already stored under the id
AddDoc(store, doc) == store \cup {doc}

\* collection('otps').doc(id).set(doc): replaces whatever is stored under the id
SetDoc(store, doc) == (store \ DocsAt(store, doc.id)) \cup {doc}

\* collection('otps').doc(id).delete()
DeleteDoc(store, id) == store \ DocsAt(store, id)

\* a document that was never created
NoItem ==
    [life |-> "new", type |-> "", userId |-> "", status |-> "", isApproved |-> FALSE,
     claimantId |-> <<>>, claimantEmail |-> <<>>, claimedAt |-> <<>>, returnedAt |-> <<>>]

\* addDoc(collection(db, 'items'), {...}) of the found / lost item forms
NewItem(type, u) ==
    [life |-> "live", type |-> type, userId |-> u, status |-> "unclaimed",
     isApproved |-> FALSE,
     claimantId |-> <<>>, claimantEmail |-> <<>>, claimedAt |-> <<>>, returnedAt |-> <<>>]

Exists(id) == items[id].life = "live"

\* the status of the item document ("" when there is no document)
StatusOf(id) == IF Exists(id) THEN items[id].status ELSE ""

\* the update both verifyClaimOTP and ClaimPage.verifyOtp apply to the item
ClaimUpdate(item, u, t) ==
    [item EXCEPT !.status = "claimed", !.claimantId = <<u>>,
                 !.claimantEmail = <<EmailOf(u)>>, !.claimedAt = <<t>>]

NoReq ==
    [fn |-> "", itemId |-> "", userEmail |-> "", otp |-> <<>>, expiresAt |-> 0, seen |-> ""]
\* toast holds what the last toast.success of sendOtp put on the screen
NoPage ==
    [open |-> FALSE, user |-> "", id |-> "", item |-> <<>>, sentOtp |-> FALSE,
     generatedOtp |-> <<>>, toast |-> <<>>]

NoLast ==
    [uid |-> "", fn |-> "", itemId |-> "", userEmail |-> "", otp |-> <<>>, seen |-> "",
     thrown |-> "", result |-> ""]

Idle(u) == pc[u] = "idle"

(***************************************************************************)
(* Matching: labels, the similarity score, the result order                *)
(***************************************************************************)
\* the longest itemLabels of a query or of a newly created item
MaxQueryLabels == 5
\* the longest imageLabels of a stored item
MaxItemLabels == 5

\* a similarity is held in units of 1 / ScoreScale
ScoreScale == 1000

\* line 147: similarity > 60;  line 189: similarity > 80
MatchThreshold == 60
NotifyThreshold == 80

\* what a division by zero yields in JavaScript: c / 0 is Infinity, 0 / 0 is NaN
Infinity == 2147483647
NaN == -1

\* the ids of the stored item documents, in the order a query returns them, and the
\* user who posted each
CandOrder == <<"f1", "f2">>
CandIds == {CandOrder[k] : k \in 1..Len(CandOrder)}
OwnerOf == [f1 |-> "u1", f2 |-> "u2"]

\* labels are strings, held as sequences of characters: "Ph" and "x" occur in
\* queries, "H" and "pho" on stored items, and some sequences of "Ph", "pho" and "x" on
\* both
QueryLabel == <<"P", "h">>
FillerLabel == <<"x">>
InsideLabel == <<"H">>
OutsideLabel == <<"p", "h", "o">>

\* String.prototype.toLowerCase
ToLowerChar(c) == CASE c = "P" -> "p" [] c = "H" -> "h" [] OTHER -> c
ToLowerCase(str) == [k \in 1..Len(str) |-> ToLowerChar(str[k])]

\* a test that would ask for a proper substring
IncludesProper(str, sub) ==
    /\ Len(sub) < Len(str)
    /\ \E k \in 0..(Len(str) - Len(sub)) : SubSeq(str, k + 1, k + Len(sub)) = sub

\* String.prototype.includes: sub occurs in str as a substring
Includes(str, sub) ==
    \E k \in 0..(Len(str) - Len(sub)) : SubSeq(str, k + 1, k + Len(sub)) = sub

\* a filter whose test would be itemLabels.every(...)
CommonLabelsEvery(imageLabels, itemLabels) ==
    SelectSeq(imageLabels,
              LAMBDA label : \A k \in 1..Len(itemLabels) :
                  Includes(ToLowerCase(itemLabels[k]), ToLowerCase(label)))

\* a filter whose test would be label.includes(l): containment the other way round
CommonLabelsReversed(imageLabels, itemLabels) ==
    SelectSeq(imageLabels,
              LAMBDA label : \E k \in 1..Len(itemLabels) :
                  Includes(ToLowerCase(label), ToLowerCase(itemLabels[k])))

\* lines 140-142: item.imageLabels.filter(label =>
\*     itemLabels.some(l => l.toLowerCase().includes(label.toLowerCase())))
CommonLabels(imageLabels, itemLabels) ==
    SelectSeq(imageLabels,
              LAMBDA label : \E k \in 1..Len(itemLabels) :
                  Includes(ToLowerCase(itemLabels[k]), ToLowerCase(label)))

\* line 145: (commonLabels.length / itemLabels.length) * 100
Similarity(commonLabels, itemLabels) ==
    IF Len(itemLabels) = 0
    THEN IF Len(commonLabels) = 0 THEN NaN ELSE Infinity
    ELSE (Len(commonLabels) * 100 * ScoreScale) \div Len(itemLabels)

\* a test that would admit a similarity of exactly 60
IsMatchInclusive(similarity) ==
    similarity # NaN /\ similarity >= MatchThreshold * ScoreScale

\* line 147: similarity > 60 (false for NaN)
IsMatch(similarity) ==
    similarity # NaN /\ similarity > MatchThreshold * ScoreScale

\* a test that would admit a similarity of exactly 80
ShouldNotifyInclusive(similarity) ==
    similarity # NaN /\ similarity >= NotifyThreshold * ScoreScale

\* line 189: similarity > 80 (false for NaN)
ShouldNotify(similarity) ==
    similarity # NaN /\ similarity > NotifyThreshold * ScoreScale

\* an insertion that would put a match before the earlier ones of equal similarity
InsertBeforeEqual(sorted, m) ==
    LET pos == Cardinality({k \in 1..Len(sorted) : sorted[k].similarity > m.similarity})
    IN SubSeq(sorted, 1, pos) \o <<m>> \o SubSeq(sorted, pos + 1, Len(sorted))

\* one insertion of the stable sort: m goes behind every match that the comparator
\* (a, b) => b.similarity - a.similarity does not place after it
InsertBySimilarity(sorted, m) ==
    LET pos == Cardinality({k \in 1..Len(sorted) : sorted[k].similarity >= m.similarity})
    IN SubSeq(sorted, 1, pos) \o <<m>> \o SubSeq(sorted, pos + 1, Len(sorted))

RECURSIVE SortBySimilarity(_)
\* line 158: matches.sort((a, b) => b.similarity - a.similarity); the sort is stable
SortBySimilarity(matches) ==
    IF matches = <<>>
    THEN <<>>
    ELSE InsertBySimilarity(SortBySimilarity(SubSeq(matches, 1, Len(matches) - 1)),
                            matches[Len(matches)])

\* the imageLabels a stored item may carry: n labels, the k-th of them "pho" (none for
\* k = 0), the others "H"
LabelsOf(k, n) == [j \in 1..n |-> IF j = k THEN OutsideLabel ELSE InsideLabel]
LabelLists == UNION {{LabelsOf(k, n) : k \in 0..n} : n \in 0..MaxItemLabels}

\* label sequences that a stored item and a query may both carry: one label, a label
\* repeated, two labels of which one contains the other, a label between two equal ones
SharedLists ==
    {<<QueryLabel>>, <<QueryLabel, QueryLabel>>, <<QueryLabel, OutsideLabel>>,
     <<OutsideLabel, FillerLabel, OutsideLabel>>}

\* the itemLabels of a query: n labels, the k-th of them "Ph" (none for k = 0), or one
\* of the shared sequences
QueryOf(k, n) == [j \in 1..n |-> IF j = k THEN QueryLabel ELSE FillerLabel]
Queries == UNION {{QueryOf(k, n) : k \in 0..n} : n \in 0..MaxQueryLabels} \cup SharedLists

\* no document under the id
NoDoc == [present |-> FALSE, type |-> "", status |-> "", userId |-> "", imageLabels |-> <<>>]

ItemDoc(type, status, u, labels) ==
    [present |-> TRUE, type |-> type, status |-> status, userId |-> u, imageLabels |-> labels]

\* imageLabels of which every one is contained in the query label "Ph"
FullLabels == LabelsOf(0, MaxItemLabels)

\* the documents tried under one id: none, an unclaimed found item with any labels, a
\* claimed found item, a pending found item and an unclaimed lost item with labels that
\* match, and unclaimed items of either type with the labels of a query
DocsFor(u) ==
    {NoDoc}
    \cup {ItemDoc("found", "unclaimed", u, labels) : labels \in LabelLists}
    \cup {ItemDoc("found", "claimed", u, FullLabels), ItemDoc("lost", "unclaimed", u, FullLabels)}
    \cup {ItemDoc("found", "pending", u, FullLabels)}
    \cup {ItemDoc(type, "unclaimed", u, labels) : type \in {"found", "lost"},
                                                  labels \in SharedLists}

Catalogs ==
    {c \in [CandIds -> UNION {DocsFor(OwnerOf[id]) : id \in CandIds}] :
        \A id \in CandIds : c[id] \in DocsFor(OwnerOf[id])}

NoCatalog == [id \in CandIds |-> NoDoc]

NoMatchOp ==
    [op |-> "", itemLabels |-> <<>>, itemType |-> "", matches |-> <<>>, created |-> <<>>,
     thrown |-> "", result |-> ""]

(***************************************************************************)
(* Initial state: one found item is posted, nothing else has happened      *)
(***************************************************************************)
InitClaimFlow(b) ==
    /\ budget = b
    /\ items = [id \in ItemIds |-> NewItem("found", "u1")]
    /\ otps = {}
    /\ outbox = {}
    /\ now = 0
    /\ pc = [u \in Users |-> "idle"]
    /\ req = [u \in Users |-> NoReq]
    /\ otpData = [u \in Users |-> <<>>]
    /\ page = NoPage
    /\ replaced = [p \in ItemIds \X Users |-> <<>>]
    /\ ops = 0
    /\ last = NoLast
    /\ verified = [id \in ItemIds |-> {}]

\* the claim flow runs with no matching operation
InitWith(b) ==
    /\ InitClaimFlow(b)
    /\ catalog = NoCatalog
    /\ mlast = NoMatchOp

Init == InitWith(MaxOps)

Tick ==
    /\ \E t \in Times :
        /\ t > now
        /\ now' = t
    /\ UNCHANGED <<items, otps, outbox, pc, req, otpData, page, replaced, ops, budget, last,
      verified>>
    /\ UNCHANGED matchVars

\* a user begins an operation
Begin(cost) ==
    /\ ops + cost <= budget
    /\ ops' = ops + cost
    /\ UNCHANGED budget

(***************************************************************************)
(* sendClaimOTP                                                            *)
(***************************************************************************)
\* the function goes on to its next await
Continue(u, r, doc, next) ==
    /\ pc' = [pc EXCEPT ![u] = next]
    /\ req' = [req EXCEPT ![u] = r]
    /\ otpData' = [otpData EXCEPT ![u] = doc]
    /\ UNCHANGED <<last, verified>>

\* the function ends: `err` is what was thrown in the body, `res` what the caller gets
Finish(u, r, err, res) ==
    /\ pc' = [pc EXCEPT ![u] = "idle"]
    /\ req' = [req EXCEPT ![u] = NoReq]
    /\ otpData' = [otpData EXCEPT ![u] = <<>>]
    /\ last' = [uid |-> u, fn |-> r.fn, itemId |-> r.itemId, userEmail |-> r.userEmail,
                otp |-> r.otp, seen |-> r.seen, thrown |-> err, result |-> res]
    /\ verified' = IF r.fn = "verifyClaimOTP" /\ res = "success"
                   THEN [verified EXCEPT ![r.itemId] = @ \cup {[uid |-> u, seen |-> r.seen]}]
                   ELSE verified

\* a catch block that would log the error and let the function return success
SendClaimOTP_Swallow(u, r, err) == Finish(u, r, err, "success")

\* lines 53-56: the catch block logs and throws HttpsError('internal', ...)
SendClaimOTP_Catch(u, r, err) == Finish(u, r, err, "internal")

\* a function whose auth check would sit inside the try block
SendClaimOTP_CallGuardInTry(u, samples) ==
    /\ Idle(u)
    /\ Begin(1)
    /\ \E auth \in BOOLEAN :
        IF auth
        THEN \E itemId \in ItemIds, userEmail \in {EmailOf(u)}, num \in samples :
                Continue(u, [fn |-> "sendClaimOTP", itemId |-> itemId,
                             userEmail |-> userEmail, otp |-> GenOtp(num),
                             expiresAt |-> now + OtpWindowMs, seen |-> StatusOf(itemId)],
                         <<>>, "send_set")
        ELSE SendClaimOTP_Catch(u, [NoReq EXCEPT !.fn = "sendClaimOTP"], "unauthenticated")
    /\ UNCHANGED <<items, otps, outbox, now, page, replaced>>
    /\ UNCHANGED matchVars

\* lines 21-27: the auth check, the request data, the generated code; `samples` are
\* the values Math.random() may return
SendClaimOTP_CallWith(u, samples) ==
    /\ Idle(u)
    /\ Begin(1)
    /\ \E auth \in BOOLEAN :
        IF auth
        THEN \E itemId \in ItemIds, userEmail \in {EmailOf(u)}, num \in samples :
                Continue(u, [fn |-> "sendClaimOTP", itemId |-> itemId,
                             userEmail |-> userEmail, otp |-> GenOtp(num),
                             expiresAt |-> now + OtpWindowMs, seen |-> StatusOf(itemId)],
                         <<>>, "send_set")
        ELSE Finish(u, [NoReq EXCEPT !.fn = "sendClaimOTP"],
                    "unauthenticated", "unauthenticated")
    /\ UNCHANGED <<items, otps, outbox, now, page, replaced>>
    /\ UNCHANGED matchVars

SendClaimOTP_Call(u) == SendClaimOTP_CallWith(u, RandomSamples)

\* lines 31-37: await otps.doc(`${itemId}_${uid}`).set({...})
SendClaimOTP_Set(u) ==
    /\ pc[u] = "send_set"
    /\ \E ok \in BOOLEAN :
        IF ok
        THEN LET id == OtpDocId(req[u].itemId, u)
                 doc == [id |-> id, otp |-> req[u].otp, itemId |-> req[u].itemId,
                         userId |-> u, createdAt |-> now, expiresAt |-> req[u].expiresAt]
                 old == DocsAt(otps, id)
             IN /\ otps' = SetDoc(otps, doc)
                /\ replaced' = [replaced EXCEPT ![<<req[u].itemId, u>>] =
                                   IF old = {} THEN <<>> ELSE (CHOOSE d \in old : TRUE).otp]
                /\ Continue(u, req[u], <<>>, "send_mail")
        ELSE /\ SendClaimOTP_Catch(u, req[u], "store")
             /\ UNCHANGED <<otps, replaced>>
    /\ UNCHANGED <<items, outbox, now, page, ops, budget>>
    /\ UNCHANGED matchVars

\* lines 40-56: await transporter.sendMail({...}); return { success: true }
SendClaimOTP_Mail(u) ==
    /\ pc[u] = "send_mail"
    /\ \E ok \in BOOLEAN :
        IF ok
        THEN /\ outbox' = outbox \cup {[to |-> req[u].userEmail, otp |-> req[u].otp]}
             /\ Finish(u, req[u], "", "success")
        ELSE /\ SendClaimOTP_Catch(u, req[u], "mail")
             /\ UNCHANGED outbox
    /\ UNCHANGED <<items, otps, now, page, replaced, ops, budget>>
    /\ UNCHANGED matchVars

(***************************************************************************)
(* verifyClaimOTP                                                          *)
(***************************************************************************)
\* line 76: otpData?.otp !== otp
OtpMismatch(doc, otp) == doc.otp # otp

\* an expiry check that would already reject at the instant of expiresAt
OtpExpiredAtDeadline(doc, t) == doc.expiresAt <= t

\* line 80: otpData?.expiresAt.toDate() < new Date()
OtpExpired(doc, t) == doc.expiresAt < t

\* lines 96-99: the catch block logs and throws HttpsError('internal', ...), also for
\* the HttpsErrors thrown by the checks of lines 71-82
VerifyClaimOTP_Catch(u, r, err) == Finish(u, r, err, "internal")

\* lines 69-82: await otps.doc(otpId).get() and the three checks on what it returned
VerifyClaimOTP_Get(u, r) ==
    \E ok \in BOOLEAN :
        IF ok
        THEN LET found == DocsAt(otps, OtpDocId(r.itemId, u))
             IN IF found = {}
                THEN VerifyClaimOTP_Catch(u, r, "not-found")
                ELSE \E doc \in found :
                        IF OtpMismatch(doc, r.otp)
                        THEN VerifyClaimOTP_Catch(u, r, "invalid-argument")
                        ELSE IF OtpExpired(doc, now)
                        THEN VerifyClaimOTP_Catch(u, r, "deadline-exceeded")
                        ELSE Continue(u, r, <<doc>>, "verify_update")
        ELSE VerifyClaimOTP_Catch(u, r, "store")

\* lines 60-82: the auth check, the request data, and the read of the challenge (the
\* function touches nothing shared before that read, so the two are one step)
VerifyClaimOTP_Call(u) ==
    /\ Idle(u)
    /\ Begin(1)
    /\ \E auth \in BOOLEAN :
        IF auth
        THEN \E itemId \in ItemIds, otp \in SubmittedCodes :
                VerifyClaimOTP_Get(u, [fn |-> "verifyClaimOTP", itemId |-> itemId,
                                       userEmail |-> "", otp |-> otp, expiresAt |-> 0,
                                       seen |-> StatusOf(itemId)])
        ELSE Finish(u, [NoReq EXCEPT !.fn = "verifyClaimOTP"],
                    "unauthenticated", "unauthenticated")
    /\ UNCHANGED <<items, otps, outbox, now, page, replaced>>
    /\ UNCHANGED matchVars

\* lines 85-90: await items.doc(itemId).update({...}); update() rejects when the
\* document does not exist
VerifyClaimOTP_Update(u) ==
    /\ pc[u] = "verify_update"
    /\ \E ok \in BOOLEAN :
        IF ok /\ Exists(req[u].itemId)
        THEN /\ items' = [items EXCEPT ![req[u].itemId] = ClaimUpdate(@, u, now)]
             /\ Continue(u, req[u], otpData[u], "verify_delete")
        ELSE /\ VerifyClaimOTP_Catch(u, req[u], "store")
             /\ UNCHANGED items
    /\ UNCHANGED <<otps, outbox, now, page, replaced, ops, budget>>
    /\ UNCHANGED matchVars

\* lines 93-99: await otps.doc(otpId).delete(); return { success: true }
VerifyClaimOTP_Delete(u) ==
    /\ pc[u] = "verify_delete"
    /\ \E ok \in BOOLEAN :
        IF ok
        THEN /\ otps' = DeleteDoc(otps, OtpDocId(req[u].itemId, u))
             /\ Finish(u, req[u], "", "success")
        ELSE /\ VerifyClaimOTP_Catch(u, req[u], "store")
             /\ UNCHANGED otps
    /\ UNCHANGED <<items, outbox, now, page, replaced, ops, budget>>
    /\ UNCHANGED matchVars

(***************************************************************************)
(* ClaimPage (client)                                                      *)
(***************************************************************************)
\* ClaimPage.tsx 27-52: loadItem on mount; a missing document navigates away
ClaimPage_LoadItem(u) ==
    /\ Begin(2)
    /\ \E id \in ItemIds, ok \in BOOLEAN :
        page' = IF ~ok THEN [NoPage EXCEPT !.open = TRUE, !.user = u, !.id = id]
                ELSE IF Exists(id)
                THEN [NoPage EXCEPT !.open = TRUE, !.user = u, !.id = id,
                                    !.item = <<items[id].status>>]
                ELSE NoPage
    /\ UNCHANGED <<items, otps, outbox, now, pc, req, otpData, replaced, last, verified>>
    /\ UNCHANGED matchVars

\* ClaimPage.tsx 112-134: the verification panel is rendered only for a loaded item
\* whose loaded status is not 'claimed'
PanelShown ==
    /\ page.open
    /\ page.item # <<>>
    /\ page.item[1] # "claimed"

\* ClaimPage.tsx 54-67: sendOtp; line 64: toast.success(`OTP sent to ${user.email}: ${otp}`)
ClaimPage_SendOtp ==
    /\ PanelShown
    /\ ~page.sentOtp
    /\ \E num \in RandomSamples :
        page' = [page EXCEPT !.generatedOtp = GenOtp(num), !.sentOtp = TRUE,
                             !.toast = <<[to |-> EmailOf(page.user), otp |-> GenOtp(num)]>>]
    /\ UNCHANGED <<items, otps, outbox, now, pc, req, otpData, replaced, ops, budget, last,
                   verified>>
    /\ UNCHANGED matchVars

\* ClaimPage.tsx 256-260: the Resend Code button
ClaimPage_Resend ==
    /\ PanelShown
    /\ page.sentOtp
    /\ page' = [page EXCEPT !.sentOtp = FALSE]
    /\ UNCHANGED <<items, otps, outbox, now, pc, req, otpData, replaced, ops, budget, last,
                   verified>>
    /\ UNCHANGED matchVars

\* ClaimPage.tsx 69-95: verifyOtp; the button is enabled for a 6-character input
ClaimPage_VerifyOtp ==
    /\ PanelShown
    /\ page.sentOtp
    /\ \E otp \in SubmittedCodes, ok \in BOOLEAN :
        /\ Len(otp) = 6
        /\ IF otp = page.generatedOtp /\ ok /\ Exists(page.id)
           THEN /\ items' = [items EXCEPT ![page.id] = ClaimUpdate(@, page.user, now)]
                /\ page' = NoPage
           ELSE UNCHANGED <<items, page>>
    /\ UNCHANGED <<otps, outbox, now, pc, req, otpData, replaced, ops, budget, last, verified>>
    /\ UNCHANGED matchVars

(***************************************************************************)
(* The pages that write item documents                                     *)
(***************************************************************************)
\* AdminPage handleApprove
HandleApprove ==
    /\ Begin(1)
    /\ \E id \in ItemIds :
        /\ Exists(id)
        /\ items' = [items EXCEPT ![id].isApproved = TRUE]
    /\ UNCHANGED <<otps, outbox, now, pc, req, otpData, page, replaced, last, verified>>
    /\ UNCHANGED matchVars

\* AdminPage handleReject: deleteDoc
HandleReject ==
    /\ Begin(1)
    /\ \E id \in ItemIds :
        /\ Exists(id)
        /\ items' = [items EXCEPT ![id] = [NoItem EXCEPT !.life = "deleted"]]
    /\ UNCHANGED <<otps, outbox, now, pc, req, otpData, page, replaced, last, verified>>
    /\ UNCHANGED matchVars

\* ProfilePage handleMarkAsReturned, offered on the user's own claimed found items
HandleMarkAsReturned(u) ==
    /\ Begin(1)
    /\ \E id \in ItemIds :
        /\ Exists(id)
        /\ items[id].userId = u
        /\ items[id].type = "found"
        /\ items[id].status = "claimed"
        /\ items' = [items EXCEPT ![id].status = "returned", ![id].returnedAt = <<now>>]
    /\ UNCHANGED <<otps, outbox, now, pc, req, otpData, page, replaced, last, verified>>
    /\ UNCHANGED matchVars

(***************************************************************************)
(* findMatches and sendMatchNotification                                   *)
(***************************************************************************)
\* a query that would leave out the condition on the status
QueryDocsAnyStatus(type) ==
    LET ids == SelectSeq(CandOrder,
                         LAMBDA id : catalog[id].present /\ catalog[id].type = type)
    IN [k \in 1..Len(ids) |-> [id |-> ids[k], item |-> catalog[ids[k]]]]

\* lines 131-134 and 175-178: collection('items').where('type', '==', type)
\* .where('status', '==', 'unclaimed').get(): the documents, in the order of their ids
QueryDocs(type) ==
    LET ids == SelectSeq(CandOrder,
                         LAMBDA id : /\ catalog[id].present
                                     /\ catalog[id].type = type
                                     /\ catalog[id].status = "unclaimed")
    IN [k \in 1..Len(ids) |-> [id |-> ids[k], item |-> catalog[ids[k]]]]

RECURSIVE CollectMatches(_, _)
\* lines 136-155: the loop over the documents that pushes the matches
CollectMatches(docs, itemLabels) ==
    IF docs = <<>>
    THEN <<>>
    ELSE LET matches == CollectMatches(SubSeq(docs, 1, Len(docs) - 1), itemLabels)
             doc == docs[Len(docs)]
             commonLabels == CommonLabels(doc.item.imageLabels, itemLabels)
         IN IF Len(commonLabels) > 0 /\ IsMatch(Similarity(commonLabels, itemLabels))
            THEN Append(matches, [id |-> doc.id, item |-> doc.item,
                                  similarity |-> Similarity(commonLabels, itemLabels)])
            ELSE matches

RECURSIVE CollectNotifications(_, _)
\* lines 180-203: the loop over the found items that adds the notifications
CollectNotifications(docs, imageLabels) ==
    IF docs = <<>>
    THEN <<>>
    ELSE LET added == CollectNotifications(SubSeq(docs, 1, Len(docs) - 1), imageLabels)
             foundDoc == docs[Len(docs)]
             commonLabels == CommonLabels(foundDoc.item.imageLabels, imageLabels)
         IN IF Len(commonLabels) > 0 /\ ShouldNotify(Similarity(commonLabels, imageLabels))
            THEN Append(added, [userId |-> foundDoc.item.userId, itemId |-> foundDoc.id,
                                type |-> "match", read |-> FALSE])
            ELSE added

\* lines 122-165: findMatches; one matching operation is followed per run, as the
\* matching functions leave the item documents as they are
FindMatches ==
    /\ mlast = NoMatchOp
    /\ \E auth \in BOOLEAN :
        IF auth
        THEN \E itemLabels \in Queries, itemType \in {"lost", "found"}, ok \in BOOLEAN :
                LET oppositeType == IF itemType = "lost" THEN "found" ELSE "lost"
                    called == [NoMatchOp EXCEPT !.op = "findMatches",
                                                !.itemLabels = itemLabels,
                                                !.itemType = itemType]
                IN mlast' =
                    IF ok
                    THEN [called EXCEPT
                            !.matches = SortBySimilarity(
                                            CollectMatches(QueryDocs(oppositeType), itemLabels)),
                            !.result = "success"]
                    ELSE [called EXCEPT !.thrown = "store", !.result = "internal"]
        ELSE mlast' = [NoMatchOp EXCEPT !.op = "findMatches", !.thrown = "unauthenticated",
                                        !.result = "unauthenticated"]
    /\ UNCHANGED catalog
    /\ UNCHANGED claimVars

\* lines 168-205: the onCreate trigger of items/{itemId}; a rejected get() or add()
\* ends the function where it stands
SendMatchNotification ==
    /\ mlast = NoMatchOp
    /\ \E type \in {"lost", "found"}, imageLabels \in Queries, ok \in BOOLEAN :
        LET created == [NoMatchOp EXCEPT !.op = "sendMatchNotification",
                                         !.itemLabels = imageLabels, !.itemType = type]
        IN IF type = "lost"
           THEN IF ok
                THEN LET toAdd == CollectNotifications(QueryDocs("found"), imageLabels)
                     IN \E failAt \in 0..Len(toAdd) :
                            mlast' = IF failAt = 0
                                     THEN [created EXCEPT !.created = toAdd,
                                                          !.result = "success"]
                                     ELSE [created EXCEPT
                                              !.created = SubSeq(toAdd, 1, failAt - 1),
                                              !.thrown = "store", !.result = "failed"]
                ELSE mlast' = [created EXCEPT !.thrown = "store", !.result = "failed"]
           ELSE mlast' = [created EXCEPT !.result = "success"]
    /\ UNCHANGED catalog
    /\ UNCHANGED claimVars

\* LostItemPage line 105: Math.floor(Math.random() * 30) + 70, the mock score
MockSpan == 30
MockBase == 70
MockScore(num) == ((num * MockSpan) \div RandDenom) + MockBase

\* LostItemPage lines 98-106: the found items with at least one common label, each
\* with a mock score drawn for it
PotentialMatches(docs, labels, nums) ==
    LET kept == SelectSeq([k \in 1..Len(docs) |-> [doc |-> docs[k], num |-> nums[k]]],
                          LAMBDA e : Len(CommonLabels(e.doc.item.imageLabels, labels)) > 0)
    IN [k \in 1..Len(kept) |-> [id |-> kept[k].doc.id, item |-> kept[k].doc.item,
                                 matchScore |-> MockScore(kept[k].num)]]

\* LostItemPage lines 81-117: findPotentialMatches; a rejected getDocs() is logged and
\* the matches on the page stay as they were
FindPotentialMatches ==
    /\ mlast = NoMatchOp
    /\ \E labels \in Queries, ok \in BOOLEAN :
        LET called == [NoMatchOp EXCEPT !.op = "findPotentialMatches",
                                        !.itemLabels = labels, !.itemType = "lost"]
            foundItems == QueryDocs("found")
        IN IF ok
           THEN \E nums \in [1..Len(foundItems) -> RandomSamples] :
                    mlast' = [called EXCEPT
                                 !.matches = PotentialMatches(foundItems, labels, nums),
                                 !.result = "success"]
           ELSE mlast' = [called EXCEPT !.thrown = "store", !.result = "logged"]
    /\ UNCHANGED catalog
    /\ UNCHANGED claimVars

Next ==
    \/ Tick
    \/ \E u \in Users : SendClaimOTP_Call(u)
    \/ \E u \in Users : SendClaimOTP_Set(u)
    \/ \E u \in Users : SendClaimOTP_Mail(u)
    \/ \E u \in Users : VerifyClaimOTP_Call(u)
    \/ \E u \in Users : VerifyClaimOTP_Update(u)
    \/ \E u \in Users : VerifyClaimOTP_Delete(u)
    \/ \E u \in Users : ClaimPage_LoadItem(u)
    \/ ClaimPage_SendOtp
    \/ ClaimPage_Resend
    \/ ClaimPage_VerifyOtp
    \/ HandleApprove
    \/ HandleReject
    \/ \E u \in Users : HandleMarkAsReturned(u)

\* every operation, interleaved at the awaits of the cloud functions
Spec == Init /\ [][Next]_vars

\* only the cloud functions are called, with a budget of MaxRaceCalls calls
NextCalls ==
    \/ \E u \in Users : SendClaimOTP_Call(u)
    \/ \E u \in Users : SendClaimOTP_Set(u)
    \/ \E u \in Users : SendClaimOTP_Mail(u)
    \/ \E u \in Users : VerifyClaimOTP_Call(u)
    \/ \E u \in Users : VerifyClaimOTP_Update(u)
    \/ \E u \in Users : VerifyClaimOTP_Delete(u)

SpecCalls == InitWith(MaxRaceCalls) /\ [][NextCalls]_vars

\* no cloud-function call is in flight
Quiet == \A u \in Users : pc[u] = "idle"

\* one operation at a time: an operation begins only when no call is in flight
NextSerial ==
    \/ Tick
    \/ Quiet /\ \E u \in Users : SendClaimOTP_Call(u)
    \/ \E u \in Users : SendClaimOTP_Set(u)
    \/ \E u \in Users : SendClaimOTP_Mail(u)
    \/ Quiet /\ \E u \in Users : VerifyClaimOTP_Call(u)
    \/ \E u \in Users : VerifyClaimOTP_Update(u)
    \/ \E u \in Users : VerifyClaimOTP_Delete(u)
    \/ Quiet /\ \E u \in Users : ClaimPage_LoadItem(u)
    \/ Quiet /\ ClaimPage_SendOtp
    \/ Quiet /\ ClaimPage_Resend
    \/ Quiet /\ ClaimPage_VerifyOtp
    \/ Quiet /\ HandleApprove
    \/ Quiet /\ HandleReject
    \/ Quiet /\ \E u \in Users : HandleMarkAsReturned(u)

SpecSerial == Init /\ [][NextSerial]_vars

\* one sendClaimOTP call, over every value of Math.random()
NextOtp ==
    \/ \E u \in Users : SendClaimOTP_CallWith(u, AllRandom)
    \/ \E u \in Users : SendClaimOTP_Set(u)
    \/ \E u \in Users : SendClaimOTP_Mail(u)

SpecOtp == InitWith(1) /\ [][NextOtp]_vars

\* one matching operation over every catalog of item documents
InitMatch ==
    /\ InitClaimFlow(0)
    /\ catalog \in Catalogs
    /\ mlast = NoMatchOp

NextMatch ==
    \/ FindMatches
    \/ SendMatchNotification
    \/ FindPotentialMatches

SpecMatch == InitMatch /\ [][NextMatch]_vars

TypeOK ==
    /\ now >= 0
    /\ \A u \in Users : pc[u] \in {"idle", "send_set", "send_mail", "verify_update",
                                   "verify_delete"}
(***************************************************************************)
(* Properties                                                              *)
(***************************************************************************)
\* the stored challenges of the pair (item, claimant)
ChallengesOf(i, u) == DocsAt(otps, OtpDocId(i, u))

\* the item document exists and records u as its claimant
ClaimedBy(i, u) ==
    /\ Exists(i)
    /\ items[i].status = "claimed"
    /\ items[i].claimantId = <<u>>

\* C1: of the verifyClaimOTP calls for one item that arrived while the item was
\* unclaimed, at most one returns success (the other must fail as already claimed).
C1_ExactlyOneVerifyWins ==
    \A i \in ItemIds : Cardinality({v \in verified[i] : v.seen = "unclaimed"}) <= 1

\* C2: the item update and the deletion of the challenge are one atomic unit: in no
\* state, also not between the steps of a verifyClaimOTP call, is the item claimed by
\* the caller while the challenge the call used is still stored.
C2_ClaimAndDeleteAtomic ==
    \A u \in Users :
        ~ (/\ pc[u] = "verify_delete"
           /\ ClaimedBy(req[u].itemId, u)
           /\ otpData[u] # <<>>
           /\ otpData[u][1] \in otps)

\* C3: an item's status changes to claimed only in a step in which a challenge is
\* stored for the pair of that item and its new claimant and has not expired.
C3_ClaimedOnlyOnValidCode ==
    [][\A i \in ItemIds :
          (StatusOf(i) # "claimed" /\ items'[i].life = "live" /\ items'[i].status = "claimed")
          => \E u \in Users :
                /\ items'[i].claimantId = <<u>>
                /\ \E d \in ChallengesOf(i, u) : now <= d.expiresAt]_vars

\* C4: a sendClaimOTP or verifyClaimOTP call that arrives while the item's status is
\* claimed does not return success.
C4_ReclaimGuard ==
    (last.fn \in {"sendClaimOTP", "verifyClaimOTP"} /\ last.seen = "claimed")
    => last.result # "success"
\* a verifyClaimOTP call of u that ends in this very step (at its checks or before)
VerifyEndsAtCall(u) ==
    /\ VerifyClaimOTP_Call(u)
    /\ pc'[u] = "idle"
    /\ last'.thrown \notin {"unauthenticated", "store"}

\* sendClaimOTP returning success leaves the issued code stored for the pair
C5_Issued(u) ==
    (SendClaimOTP_Mail(u) /\ last'.result = "success")
    => \E d \in DocsAt(otps', OtpDocId(req[u].itemId, u)) :
          /\ d.otp = req[u].otp
          /\ d.expiresAt = req[u].expiresAt

\* verifyClaimOTP is turned away by its checks only if no stored challenge of the pair
\* carries the submitted code and is unexpired (now <= expiresAt)
C5_Admitted(u) ==
    VerifyEndsAtCall(u)
    => ~ \E d \in ChallengesOf(last'.itemId, u) :
            d.otp = last'.otp /\ now <= d.expiresAt

\* once admitted, the call fails only on a store failure; otherwise the item is
\* claimed by the caller
C5_Updated(u) ==
    VerifyClaimOTP_Update(u)
    => IF pc'[u] = "verify_delete"
       THEN LET item == items'[req[u].itemId]
            IN item.status = "claimed" /\ item.claimantId = <<u>> /\ item.claimedAt = <<now>>
       ELSE last'.thrown = "store"

\* and the call returns success with the item claimed by the caller and no challenge
\* left for the pair, unless the store fails
C5_Returned(u) ==
    VerifyClaimOTP_Delete(u)
    => \/ last'.thrown = "store"
       \/ /\ last'.result = "success"
          /\ DocsAt(otps', OtpDocId(req[u].itemId, u)) = {}
          /\ LET item == items'[req[u].itemId]
             IN item.status = "claimed" /\ item.claimantId = <<u>>

\* C5: with one operation at a time and no store or mail failure, sendClaimOTP stores
\* the issued code, verifyClaimOTP with that code at a time not after expiresAt passes
\* its checks and returns success, and then the item is claimed by the caller and no
\* challenge of the pair is left.
C5_IssueThenVerify ==
    [][\A u \in Users : C5_Issued(u) /\ C5_Admitted(u) /\ C5_Updated(u) /\ C5_Returned(u)]_vars

\* a code was mailed to the caller, the caller's verifyClaimOTP with it returned
\* success, the item is claimed by the caller and the challenge is gone
C5_Witness ==
    /\ last.fn = "verifyClaimOTP"
    /\ last.result = "success"
    /\ last.seen = "unclaimed"
    /\ [to |-> EmailOf(last.uid), otp |-> last.otp] \in outbox
    /\ ClaimedBy(last.itemId, last.uid)
    /\ ChallengesOf(last.itemId, last.uid) = {}

\* C6: verifyClaimOTP with the stored code at a time after expiresAt fails with
\* 'deadline-exceeded' and leaves the item and the stored challenge as they are.
C6_ExpiredReported ==
    [][\A u \in Users :
          (/\ VerifyEndsAtCall(u)
           /\ \E d \in ChallengesOf(last'.itemId, u) :
                 d.otp = last'.otp /\ now > d.expiresAt)
          => /\ last'.result = "deadline-exceeded"
             /\ items' = items
             /\ otps' = otps]_vars

\* C7: verifyClaimOTP with a code other than the stored one fails with
\* 'invalid-argument' and leaves the item and the stored challenge as they are.
C7_MismatchReported ==
    [][\A u \in Users :
          (/\ VerifyEndsAtCall(u)
           /\ \E d \in ChallengesOf(last'.itemId, u) : d.otp # last'.otp)
          => /\ last'.result = "invalid-argument"
             /\ items' = items
             /\ otps' = otps]_vars

\* at most one challenge is stored per (itemId, claimantId)
C8_AtMostOne ==
    \A i \in ItemIds, u \in Users : Cardinality(ChallengesOf(i, u)) <= 1

\* after its set(), sendClaimOTP finds its new challenge as the only one of the pair
C8_Replaces(u) ==
    pc[u] = "send_mail"
    => LET S == ChallengesOf(req[u].itemId, u)
       IN /\ S # {}
          /\ \A d \in S : d.otp = req[u].otp /\ d.expiresAt = req[u].expiresAt

\* verifyClaimOTP has passed its checks only with the code of the stored challenge
C8_AcceptsStoredOnly(u) ==
    pc[u] = "verify_update"
    => LET S == ChallengesOf(req[u].itemId, u)
       IN /\ S # {}
          /\ \A d \in S : d.otp = req[u].otp

\* C8: at most one challenge is stored per (itemId, claimantId) in every state; a
\* second sendClaimOTP for the pair replaces the first challenge, and verifyClaimOTP
\* accepts only the code stored last, not the one it replaced.
C8_OneChallengePerPair ==
    /\ C8_AtMostOne
    /\ \A u \in Users : C8_Replaces(u) /\ C8_AcceptsStoredOnly(u)

\* a second code replaced a different first one, and verifyClaimOTP with the first
\* code was turned away
C8_Witness ==
    /\ last.fn = "verifyClaimOTP"
    /\ last.thrown = "invalid-argument"
    /\ last.result # "success"
    /\ replaced[<<last.itemId, last.uid>>] = last.otp
    /\ \E d \in ChallengesOf(last.itemId, last.uid) : d.otp # last.otp

\* C9: sendClaimOTP returns success only if the code was handed to the mail
\* transport for the caller's address; when sendMail fails the call fails.
C9_SuccessOnlyIfMailed ==
    /\ (last.fn = "sendClaimOTP" /\ last.result = "success")
       => [to |-> last.userEmail, otp |-> last.otp] \in outbox
    /\ (last.fn = "sendClaimOTP" /\ last.thrown \in {"mail", "store"})
       => last.result # "success"

\* sendMail failed for a code that is stored, and the call failed
C9_Witness ==
    /\ last.fn = "sendClaimOTP"
    /\ last.thrown = "mail"
    /\ last.result = "internal"
    /\ [to |-> last.userEmail, otp |-> last.otp] \notin outbox
    /\ \E d \in ChallengesOf(last.itemId, last.uid) : d.otp = last.otp

\* C10: a sendClaimOTP call for an itemId without an item document does not return
\* success.
C10_MissingItemRejected ==
    (last.fn = "sendClaimOTP" /\ last.itemId # "" /\ last.seen = "")
    => last.result # "success"
\* C11: sendClaimOTP and verifyClaimOTP called without context.auth fail with
\* 'unauthenticated' before any store access: the otps, the mails and the items are
\* as they were.
C11_UnauthenticatedRejected ==
    [][\A u \in Users :
          (/\ SendClaimOTP_Call(u) \/ VerifyClaimOTP_Call(u)
           /\ pc'[u] = "idle"
           /\ last'.thrown = "unauthenticated")
          => /\ last'.result = "unauthenticated"
             /\ otps' = otps
             /\ outbox' = outbox
             /\ items' = items]_vars

\* a call without identity was turned away while a challenge was stored
C11_Witness ==
    /\ last.thrown = "unauthenticated"
    /\ last.result = "unauthenticated"
    /\ last.fn = "verifyClaimOTP"
    /\ ChallengesOf("i1", last.uid) # {}

\* C12: every failure of verifyClaimOTP reaches the caller with the code of its cause:
\* 'not-found', 'deadline-exceeded' and 'invalid-argument' are told apart from each
\* other and from a store failure.
C12_TypedFailures ==
    (/\ last.fn = "verifyClaimOTP"
     /\ last.thrown \in {"not-found", "deadline-exceeded", "invalid-argument"})
    => last.result = last.thrown

\* C13: for every item, claimantId and claimedAt are set if and only if the status is
\* claimed.
C13_ClaimantIffClaimed ==
    \A i \in ItemIds :
        Exists(i) =>
            /\ (items[i].claimantId # <<>>) <=> (items[i].status = "claimed")
            /\ (items[i].claimedAt # <<>>) <=> (items[i].status = "claimed")

\* the number a sequence of decimal digits denotes
RECURSIVE ValueOf(_)
ValueOf(ds) ==
    IF ds = <<>> THEN 0 ELSE 10 * ValueOf(SubSeq(ds, 1, Len(ds) - 1)) + ds[Len(ds)]

\* a string of exactly 6 decimal digits, the first not 0, denoting 100000..999999
SixDigitCode(code) ==
    /\ Len(code) = 6
    /\ \A k \in 1..6 : code[k] \in 0..9
    /\ code[1] # 0
    /\ ValueOf(code) \in 100000..999999

\* C14: every code sendClaimOTP generates, stores or mails is an integer in
\* 100000..999999 rendered as exactly 6 decimal digits with a non-zero first digit.
C14_SixDigitCodes ==
    /\ \A u \in Users : req[u].fn = "sendClaimOTP" => SixDigitCode(req[u].otp)
    /\ \A d \in otps : SixDigitCode(d.otp)
    /\ \A m \in outbox : SixDigitCode(m.otp)

\* the smallest value of the random source was drawn, and its code stored and mailed
C14_Witness ==
    /\ \E d \in otps : d.otp = GenOtp(0) /\ d.otp = <<1, 0, 0, 0, 0, 0>>
    /\ \E m \in outbox : m.otp = GenOtp(0)

\* C15: every stored challenge has expiresAt = createdAt + 10 minutes.
C15_WindowFromCreation ==
    \A d \in otps : d.expiresAt = d.createdAt + OtpWindowMs
\* the positions of imageLabels whose label, lower-cased, is a substring of some
\* lower-cased label of Q
ContainedPositions(imageLabels, Q) ==
    {i \in 1..Len(imageLabels) :
        \E j \in 1..Len(Q) : Includes(ToLowerCase(Q[j]), ToLowerCase(imageLabels[i]))}

\* the number of those positions for the stored item id
Hits(id, Q) == Cardinality(ContainedPositions(catalog[id].imageLabels, Q))

\* the stored items of the given type that are unclaimed
Pool(type) ==
    {id \in CandIds : /\ catalog[id].present
                      /\ catalog[id].type = type
                      /\ catalog[id].status = "unclaimed"}

OppositeOf(type) == IF type = "lost" THEN "found" ELSE "lost"

\* findMatches has returned its matches
Found == mlast.op = "findMatches" /\ mlast.result = "success"

\* sendMatchNotification has run to its end for a new lost item
Notified ==
    /\ mlast.op = "sendMatchNotification"
    /\ mlast.itemType = "lost"
    /\ mlast.result = "success"

MatchIds == {mlast.matches[k].id : k \in 1..Len(mlast.matches)}

\* C16: for a non-empty query Q the score findMatches computed for a candidate is
\* 100 * (number of positions of the candidate's imageLabels whose label is contained,
\* case-insensitively, in some label of Q) / |Q|.
C16_ScoreFormula ==
    (Found /\ mlast.itemLabels # <<>>)
    => \A k \in 1..Len(mlast.matches) :
          LET m == mlast.matches[k]
          IN m.similarity
               = (100 * ScoreScale * Hits(m.id, mlast.itemLabels)) \div Len(mlast.itemLabels)

\* a candidate with two labels contained in the query and one label that contains a
\* query label was scored 2 of 3
C16_Witness ==
    /\ Found
    /\ Len(mlast.itemLabels) = 3
    /\ \E k \in 1..Len(mlast.matches) :
          LET m == mlast.matches[k]
          IN /\ Hits(m.id, mlast.itemLabels) = 2
             /\ m.similarity = (200 * ScoreScale) \div 3
             /\ \E i \in 1..Len(m.item.imageLabels) : m.item.imageLabels[i] = <<"p", "h", "o">>

\* C17: findMatches returns exactly the candidates of the pool whose similarity is
\* strictly greater than 60, each once.
C17_ExactlyAbove60 ==
    Found
    => LET Q == mlast.itemLabels
           above == {id \in Pool(OppositeOf(mlast.itemType)) :
                        Len(Q) > 0 /\ 100 * Hits(id, Q) > 60 * Len(Q)}
       IN /\ MatchIds = above
          /\ Len(mlast.matches) = Cardinality(above)

\* a candidate of similarity exactly 60 was left out while another one was returned
C17_Witness ==
    /\ Found
    /\ mlast.matches # <<>>
    /\ \E id \in Pool(OppositeOf(mlast.itemType)) :
          /\ 100 * Hits(id, mlast.itemLabels) = 60 * Len(mlast.itemLabels)
          /\ Hits(id, mlast.itemLabels) > 0
          /\ id \notin MatchIds

\* the notifications created for the stored item id
CreatedFor(id) == {k \in 1..Len(mlast.created) : mlast.created[k].itemId = id}

\* C18: for a new lost item sendMatchNotification creates exactly one notification for
\* each unclaimed found item whose similarity (over the new item's label count) is
\* strictly greater than 80, addressed to that item's userId, and none for the others.
C18_NotifyAbove80 ==
    Notified
    => \A id \in CandIds :
          LET Q == mlast.itemLabels
          IN IF id \in Pool("found") /\ Len(Q) > 0 /\ 100 * Hits(id, Q) > 80 * Len(Q)
             THEN /\ Cardinality(CreatedFor(id)) = 1
                  /\ \A k \in CreatedFor(id) : mlast.created[k].userId = catalog[id].userId
             ELSE CreatedFor(id) = {}

\* a found item of similarity exactly 80 got no notification while another one did
C18_Witness ==
    /\ Notified
    /\ Len(mlast.created) = 1
    /\ \E id \in Pool("found") :
          /\ 100 * Hits(id, mlast.itemLabels) = 80 * Len(mlast.itemLabels)
          /\ Hits(id, mlast.itemLabels) > 0
          /\ CreatedFor(id) = {}

\* the place of a document id in the order a query returns the documents
PlaceOf(id) == CHOOSE k \in 1..Len(CandOrder) : CandOrder[k] = id

\* C19: the matches findMatches returns are sorted non-increasing by similarity, and
\* matches of equal similarity keep the order of the documents read.
C19_SortedStable ==
    Found
    => \A j, k \in 1..Len(mlast.matches) :
          j < k
          => /\ mlast.matches[j].similarity >= mlast.matches[k].similarity
             /\ mlast.matches[j].similarity = mlast.matches[k].similarity
                => PlaceOf(mlast.matches[j].id) < PlaceOf(mlast.matches[k].id)

\* two matches of equal similarity were returned
C19_Witness ==
    /\ Found
    /\ Len(mlast.matches) = 2
    /\ mlast.matches[1].similarity = mlast.matches[2].similarity
    /\ mlast.matches[1].id = "f1"

\* C20: with empty itemLabels findMatches returns no match and sendMatchNotification
\* creates no notification, whatever items are stored; no score is computed from 0 / 0.
C20_EmptyQuery ==
    /\ (mlast.op = "findMatches" /\ mlast.thrown # "unauthenticated" /\ mlast.itemLabels = <<>>)
       => /\ mlast.matches = <<>>
          /\ mlast.thrown \in {"", "store"}
          /\ mlast.thrown = "" => mlast.result = "success"
    /\ (mlast.op = "sendMatchNotification" /\ mlast.itemLabels = <<>>)
       => mlast.created = <<>>

\* findMatches ran with empty itemLabels over a pool of items that carry labels
C20_Witness ==
    /\ Found
    /\ mlast.itemLabels = <<>>
    /\ mlast.matches = <<>>
    /\ \A id \in CandIds : id \in Pool(OppositeOf(mlast.itemType))
                           /\ catalog[id].imageLabels # <<>>

\* C21: for every non-empty label sequence A, a candidate of the pool whose imageLabels
\* are A is returned by findMatches for the query labels A with a similarity of
\* exactly 100.
C21_SelfSimilarity ==
    (Found /\ mlast.itemLabels # <<>>)
    => \A id \in Pool(OppositeOf(mlast.itemType)) :
          catalog[id].imageLabels = mlast.itemLabels
          => /\ id \in MatchIds
             /\ \A k \in 1..Len(mlast.matches) :
                   mlast.matches[k].id = id => mlast.matches[k].similarity = 100 * ScoreScale

\* both stored items carried the labels of the query, one label of which contains the
\* other, and both were returned
C21_Witness ==
    /\ Found
    /\ mlast.itemLabels = <<QueryLabel, OutsideLabel>>
    /\ Len(mlast.matches) = 2
    /\ \A k \in 1..2 : /\ mlast.matches[k].item.imageLabels = mlast.itemLabels
                        /\ mlast.matches[k].similarity = 100 * ScoreScale

\* C22: for a non-empty query the similarity of every returned candidate lies in 0..100.
C22_ScoreInRange ==
    (Found /\ mlast.itemLabels # <<>>)
    => \A k \in 1..Len(mlast.matches) :
          /\ mlast.matches[k].similarity >= 0
          /\ mlast.matches[k].similarity <= 100 * ScoreScale

\* C23: every item findMatches returns is a stored item of the type opposite to the
\* query's itemType that had status unclaimed when the pool was read; an item of the
\* query's own type, or a claimed or pending one, is never returned.
C23_OppositeUnclaimed ==
    Found
    => \A k \in 1..Len(mlast.matches) :
          LET m == mlast.matches[k]
          IN /\ catalog[m.id].present
             /\ m.item = catalog[m.id]
             /\ m.item.type = OppositeOf(mlast.itemType)
             /\ m.item.type # mlast.itemType
             /\ m.item.status = "unclaimed"

\* a found item that is not unclaimed and carries matching labels was left out of the
\* result for a lost item while an unclaimed one was returned
C23_Witness ==
    /\ Found
    /\ mlast.itemType = "lost"
    /\ catalog["f1"].type = "found"
    /\ catalog["f1"].status \in {"claimed", "pending"}
    /\ catalog["f1"].imageLabels = FullLabels
    /\ Hits("f1", mlast.itemLabels) = MaxItemLabels
    /\ MatchIds = {"f2"}

\* C24: when a found item is posted while an unclaimed lost item with matching labels
\* (here: the same labels, a similarity of 100) is stored, a match notification is
\* created for the reporter of the lost item. The onCreate trigger of the new found
\* item is the only code that runs for it, so the notification has to exist once that
\* trigger has run to its end.
C24_LostReporterNotified ==
    (/\ mlast.op = "sendMatchNotification"
     /\ mlast.itemType = "found"
     /\ mlast.result = "success"
     /\ mlast.itemLabels # <<>>)
    => \A id \in Pool("lost") :
          catalog[id].imageLabels = mlast.itemLabels
          => \E k \in 1..Len(mlast.created) : mlast.created[k].userId = catalog[id].userId

\* the ids findMatches returns for the labels over the unclaimed found items
ServerMatchIds(labels) ==
    LET matches == CollectMatches(QueryDocs("found"), labels)
    IN {matches[k].id : k \in 1..Len(matches)}

\* C30: the items findPotentialMatches presents for a label sequence are the items
\* findMatches returns for the same labels over the same unclaimed found items.
C30_ClientMatchesServer ==
    (mlast.op = "findPotentialMatches" /\ mlast.result = "success")
    => MatchIds = ServerMatchIds(mlast.itemLabels)

\* C25: claimed is terminal: once an item is claimed, no later call of sendClaimOTP or
\* verifyClaimOTP changes its claimantId or its claimedAt.
C25_ClaimedIsTerminal ==
    [][\A id \in ItemIds :
          items[id].status = "claimed"
          => /\ items'[id].claimantId = items[id].claimantId
             /\ items'[id].claimedAt = items[id].claimedAt]_vars

\* C26: verifyClaimOTP checks the expiry before the code: a call that finds a stored
\* challenge whose expiresAt has passed throws deadline-exceeded in its body, whatever
\* code was submitted.
C26_ExpiryBeforeCode ==
    [][\A u \in Users :
          (/\ VerifyEndsAtCall(u)
           /\ \E d \in ChallengesOf(last'.itemId, u) : d.expiresAt < now)
          => last'.thrown = "deadline-exceeded"]_vars

\* item ids a caller may send: itemId is taken from the request data as it comes, so
\* it may hold the separator and a uid
SentItemIds == ItemIds \cup {"i2", "i1_u1", "i1_u2", "i2_u2", "i"}

\* distinct (item, claimant) pairs have distinct document ids
C27_DistinctKeys ==
    \A i1 \in SentItemIds, i2 \in SentItemIds, u1 \in Users, u2 \in Users :
        OtpDocId(i1, u1) = OtpDocId(i2, u2) => (i1 = i2 /\ u1 = u2)

\* a stored challenge lies under the id of its own pair, and a verifyClaimOTP call goes
\* on to the update only with the challenge of the caller's pair and its code
C27_OwnChallengeOnly ==
    /\ \A d \in otps : d.id = OtpDocId(d.itemId, d.userId)
    /\ \A u \in Users :
          pc[u] \in {"verify_update", "verify_delete"}
          => /\ otpData[u] # <<>>
             /\ otpData[u][1].userId = u
             /\ otpData[u][1].itemId = req[u].itemId
             /\ otpData[u][1].otp = req[u].otp

\* the write of sendClaimOTP leaves the challenges of every other pair in the store
C27_OthersKept(u) ==
    SendClaimOTP_Set(u)
    => \A d \in otps : (d.userId # u \/ d.itemId # req[u].itemId) => d \in otps'

C28_CodeNotDisclosed ==
    /\ last.fn = "sendClaimOTP" => last.result \in {"success", "internal", "unauthenticated"}
    /\ page.toast # <<>> => page.toast = <<[to |-> EmailOf(page.user), otp |-> <<>>]>>

\* C29: a sendClaimOTP call that fails at the email dispatch leaves the store as it was
\* before the call: when the pair had no challenge before the call, it has none after.
C29_FailedIssueLeavesNoChallenge ==
    (/\ last.fn = "sendClaimOTP"
     /\ last.thrown = "mail"
     /\ replaced[<<last.itemId, last.uid>>] = <<>>
     /\ pc[last.uid] = "idle")
    => ChallengesOf(last.itemId, last.uid) = {}
====
